---- MODULE Spec2Model ----
(***************************************************************************)
(* Model of scripts/generate_pointclouds.py: write_random_pointcloud_bag   *)
(* synthesises num_frames PointCloud2 frames of 10 random points each and  *)
(* appends them to a rosbag opened in write mode.                          *)
(*                                                                         *)
(* The process-wide ROS runtime, the file system, the clock, the random    *)
(* generator and the byte order of the host are the environment of the     *)
(* function; each is a variable of the model. One action models one        *)
(* statement group of the function that can return or raise on its own.    *)
(***************************************************************************)
EXTENDS Integers, Sequences, FiniteSets, TLC

\* ------------------------------------------------------------- bounds ----
\* Largest num_frames a call is made with.
MaxFrames == 2
\* Largest value the clock reads (the clock is an integer tick count).
MaxTime == 1

\* ------------------------------------------------ input domains ----------
Paths == {"out.bag"}
Topics == {"/points", "/lidar"}
ByteOrders == {"little", "big"}

\* A float64 sample of the generator is k / 2^53 with 0 <= k < 2^53; k is
\* held as the pair <<hi, lo>> with k = hi * 2^26 + lo, hi < 2^27, lo < 2^26,
\* so that every intermediate value fits a 32-bit integer.
\*    <<0, 0>>                    0.0
\*    <<2^26, 0>>                 0.5
\*    <<2^27 - 1, 2^26 - 1>>      1 - 2^-53, the largest sample below 1.0
SampleTable == << <<0, 0>>, <<2^26, 0>>, <<2^27 - 1, 2^26 - 1>> >>

\* ----------------------------------------------------------- state -------
VARIABLES
    initialized,  \* rospy: init_node has succeeded in this process
    hostOrder,    \* sys.byteorder of the host running the script
    rng,          \* np.random global generator state (index of next sample)
    now,          \* last value read from the clock
    disk,         \* [path -> sequence of container entries]
    pc,           \* position of the function
    bag_file, topic_name, num_frames,   \* the call's arguments
    i,            \* loop variable of line 20
    bagOpen,      \* the Bag handle of line 19 is open
    points,       \* line 36: 10 x 4 float32 values (as bit patterns)
    cloud_data,   \* lines 39-41: list of packed records
    msg,          \* lines 44-54: the PointCloud2 message
    err,          \* exception in flight or propagated ("none" if none)
    log,          \* history: operations attempted by the current call
    clockReads,   \* history: clock reads of the current call, in order
    generated,    \* history: messages built by the current call, in order
    written,      \* history: entries appended by the current call, in order
    hadPrior      \* history: the container held entries when the call began

vars == << initialized, hostOrder, rng, now, disk, pc, bag_file, topic_name,
           num_frames, i, bagOpen, points, cloud_data, msg, err, log,
           clockReads, generated, written, hadPrior >>

\* ------------------------------------------------ float32 narrowing ------
RECURSIVE ILog2(_)
\* floor(log2(n)) for n >= 1.
ILog2(n) == IF n <= 1 THEN 0 ELSE 1 + ILog2(n \div 2)

\* k >> s and k mod 2^s for k = hi * 2^26 + lo.
ShiftRight(hi, lo, s) ==
    IF s <= 26 THEN hi * 2^(26 - s) + (lo \div 2^s)
    ELSE hi \div 2^(s - 26)
LowBits(hi, lo, s) ==
    IF s <= 26 THEN lo % 2^s
    ELSE (hi % 2^(s - 26)) * 2^26 + lo

\* A mis-narrowing: biased exponent off by one (every value doubled).
NarrowDoubled(hi, lo) ==
    IF hi = 0 /\ lo = 0 THEN 0
    ELSE LET e == IF hi > 0 THEN 26 + ILog2(hi) ELSE ILog2(lo)
             s == IF e > 23 THEN e - 23 ELSE 0
             q == IF e > 23 THEN ShiftRight(hi, lo, s) ELSE lo * 2^(23 - e)
         IN  (e - 53 + 128) * 2^23 + (q - 2^23)

\* astype(np.float32) of the float64 k / 2^53: IEEE-754 round to nearest,
\* ties to even, to a 24-bit significand. The result is the float32 bit
\* pattern (sign 0, biased exponent * 2^23 + fraction); a significand that
\* rounds up to 2^24 carries into the exponent.
Narrow(hi, lo) ==
    IF hi = 0 /\ lo = 0 THEN 0
    ELSE LET e == IF hi > 0 THEN 26 + ILog2(hi) ELSE ILog2(lo)
             s == IF e > 23 THEN e - 23 ELSE 0
             q == IF e > 23 THEN ShiftRight(hi, lo, s) ELSE lo * 2^(23 - e)
             r == IF e > 23 THEN LowBits(hi, lo, s) ELSE 0
             half == IF s > 0 THEN 2^(s - 1) ELSE 1
             up == (r > half) \/ (r = half /\ q % 2 = 1)
             q2 == IF up THEN q + 1 ELSE q
         IN  (e - 53 + 127) * 2^23 + (q2 - 2^23)

\* Bit pattern of the float32 1.0.
OneBits == 127 * 2^23
\* Bit pattern of +infinity; every finite non-negative float32 is below it.
InfBits == 255 * 2^23

\* ------------------------------------------------------- packing ---------
\* The four bytes of a 32-bit pattern, least significant first.
BytesLE(bits) ==
    << bits % 256, (bits \div 256) % 256, (bits \div 65536) % 256,
       (bits \div 16777216) % 256 >>
\* The same four bytes, most significant first.
BytesBE(bits) ==
    << (bits \div 16777216) % 256, (bits \div 65536) % 256,
       (bits \div 256) % 256, bits % 256 >>

\* A mis-packing: format 'fff', the intensity field dropped.
PackThree(order, p) ==
    IF order = "little" THEN BytesLE(p[1]) \o BytesLE(p[2]) \o BytesLE(p[3])
    ELSE BytesBE(p[1]) \o BytesBE(p[2]) \o BytesBE(p[3])

\* struct.pack('ffff', p[0], p[1], p[2], p[3]): the format has no byte-order
\* prefix, so the byte order (and alignment) is the host's native one; four
\* 4-byte floats need no alignment padding.
Pack(order, p) ==
    IF order = "little"
    THEN BytesLE(p[1]) \o BytesLE(p[2]) \o BytesLE(p[3]) \o BytesLE(p[4])
    ELSE BytesBE(p[1]) \o BytesBE(p[2]) \o BytesBE(p[3]) \o BytesBE(p[4])

\* What the spec's record layout asks for: '<ffff'.
PackLittle(p) ==
    BytesLE(p[1]) \o BytesLE(p[2]) \o BytesLE(p[3]) \o BytesLE(p[4])

RECURSIVE Join(_)
\* b''.join(list)
Join(list) == IF list = << >> THEN << >> ELSE Head(list) \o Join(Tail(list))

\* ------------------------------------------------------- the frame -------
\* line 24
num_points == 10

\* lines 27-32: name, offset, datatype (FLOAT32 = 7), count
PointFields ==
    << [name |-> "x", offset |-> 0, datatype |-> 7, count |-> 1],
       [name |-> "y", offset |-> 4, datatype |-> 7, count |-> 1],
       [name |-> "z", offset |-> 8, datatype |-> 7, count |-> 1],
       [name |-> "intensity", offset |-> 12, datatype |-> 7, count |-> 1] >>

\* The sample the generator yields in state g, and the state after n draws.
Sample(g) == SampleTable[(g % Len(SampleTable)) + 1]
Advance(g, n) == (g + n) % Len(SampleTable)

\* line 36: np.random.rand(num_points, 4).astype(np.float32); the samples are
\* drawn row by row from generator state g.
RandPoints(g) ==
    [r \in 1..num_points |->
        [f \in 1..4 |->
            LET s == Sample(g + 4 * (r - 1) + (f - 1)) IN Narrow(s[1], s[2])]]

\* lines 39-41
PackAll(order, pts) == [r \in 1..Len(pts) |-> Pack(order, pts[r])]

\* A message whose header.stamp is never assigned and keeps its default.
MessageUnstamped(stamp, data) ==
    [ header |-> [stamp |-> 0, frame_id |-> "velodyne"],
      height |-> 1,
      width |-> num_points,
      fields |-> PointFields,
      is_bigendian |-> FALSE,
      point_step |-> 16,
      row_step |-> 16 * num_points,
      is_dense |-> TRUE,
      data |-> Join(data) ]

\* lines 44-54
Message(stamp, data) ==
    [ header |-> [stamp |-> stamp, frame_id |-> "velodyne"],
      height |-> 1,
      width |-> num_points,
      fields |-> PointFields,
      is_bigendian |-> FALSE,
      point_step |-> 16,
      row_step |-> 16 * num_points,
      is_dense |-> TRUE,
      data |-> Join(data) ]

\* A wrong time argument: a synthetic count-down stamp instead of the clock.
CountDownTime(t, k, n) == n - k
\* line 59, third argument: the time the entry is tagged with, given the
\* clock reading t in iteration k of n.
AppendTime(t, k, n) == t

\* line 59: the entry bag.write appends.
Entry(topic, m, t) == [topic |-> topic, msg |-> m, t |-> t]

\* ------------------------------------------------ control decisions ------
\* An except clause that matches nothing.
CaughtNothing(exc) == FALSE
\* line 14: except rospy.exceptions.ROSException
Caught(exc) == exc = "ROSException"

\* Mode 'a': the prior content is kept.
OpenedAppend(old) == old
\* line 19: mode 'w' truncates the file.
Opened(old) == << >>

\* A loop that stops one frame early.
LoopContinuesShort(k, n) == k < n - 1
\* line 20: for i in range(num_frames)
LoopContinues(k, n) == k < n

\* No scoped acquisition: an error in the body leaves the function at once.
BodyErrorTargetUnscoped == "raised"
\* line 19: an exception in the with body runs Bag.__exit__ (close) first.
BodyErrorTarget == "close"

\* An __exit__ that suppresses the exception in flight.
AfterCloseSuppress(e) == "finish"
\* line 19: Bag.__exit__ returns None, so an exception in flight propagates
\* after the close; otherwise control falls through to line 64.
AfterClose(e) == IF e = "none" THEN "finish" ELSE "raised"

\* The clock: rospy.Time.now() reads wall-clock (or simulated) time, which
\* normally advances but can be set back between two reads.
ClockNext(t) == {u \in 0..MaxTime : u >= t - 1 /\ u <= t + 1}

\* init_node outcomes: success (or silent return on an identical repeat
\* call); ROSException when the node was initialised with other arguments;
\* any other exception.
InitOutcomes(inited) ==
    IF inited THEN {"ok", "ROSException", "OtherError"} ELSE {"ok", "OtherError"}

Event(op, res) == [op |-> op, res |-> res]
Read(by, k, t) == [by |-> by, frame |-> k, t |-> t]
NoMsg == [none |-> TRUE]

\* ------------------------------------------------------------ Init -------
Init ==
    /\ initialized \in BOOLEAN
    /\ hostOrder \in ByteOrders
    /\ rng \in 0..(Len(SampleTable) - 1)
    /\ now = 0
    /\ disk = [p \in Paths |-> << >>]
    /\ pc = "idle"
    /\ bag_file = "out.bag"
    /\ topic_name = "/points"
    /\ num_frames = 0
    /\ i = 0
    /\ bagOpen = FALSE
    /\ points = << >>
    /\ cloud_data = << >>
    /\ msg = NoMsg
    /\ err = "none"
    /\ log = << >>
    /\ clockReads = << >>
    /\ generated = << >>
    /\ written = << >>
    /\ hadPrior = FALSE

\* ---------------------------------------------------------- actions ------
\* write_random_pointcloud_bag(bag_file, topic_name, num_frames) is called.
Call ==
    /\ pc \in {"idle", "done", "raised"}
    /\ \E f \in Paths, t \in Topics, n \in 0..MaxFrames :
          /\ bag_file' = f
          /\ topic_name' = t
          /\ num_frames' = n
          /\ hadPrior' = (Len(disk[f]) > 0)
    /\ pc' = "init"
    /\ i' = 0
    /\ points' = << >>
    /\ cloud_data' = << >>
    /\ msg' = NoMsg
    /\ err' = "none"
    /\ log' = << >>
    /\ clockReads' = << >>
    /\ generated' = << >>
    /\ written' = << >>
    /\ UNCHANGED << initialized, hostOrder, rng, now, disk, bagOpen >>

\* lines 11-15: init_node returns, or raises an exception the clause catches.
InitNode ==
    /\ pc = "init"
    /\ \E o \in InitOutcomes(initialized) :
          /\ o = "ok" \/ Caught(o)
          /\ initialized' = (initialized \/ o = "ok")
          /\ log' = Append(log, Event("init_node", o))
    /\ pc' = "open"
    /\ UNCHANGED << hostOrder, rng, now, disk, bag_file, topic_name, num_frames,
                    i, bagOpen, points, cloud_data, msg, err, clockReads,
                    generated, written, hadPrior >>

\* lines 11-15: init_node raises an exception the clause does not catch.
InitNodeRaise ==
    /\ pc = "init"
    /\ \E o \in InitOutcomes(initialized) :
          /\ o # "ok" /\ ~Caught(o)
          /\ err' = o
          /\ log' = Append(log, Event("init_node", o))
    /\ pc' = "raised"
    /\ UNCHANGED << initialized, hostOrder, rng, now, disk, bag_file, topic_name,
                    num_frames, i, bagOpen, points, cloud_data, msg, clockReads,
                    generated, written, hadPrior >>

\* line 19: rosbag.Bag(bag_file, 'w') succeeds; line 20 is evaluated.
OpenBag ==
    /\ pc = "open"
    /\ disk' = [disk EXCEPT ![bag_file] = Opened(@)]
    /\ bagOpen' = TRUE
    /\ log' = Append(log, Event("open", "ok"))
    /\ pc' = IF LoopContinues(0, num_frames) THEN "gen" ELSE "close"
    /\ UNCHANGED << initialized, hostOrder, rng, now, bag_file, topic_name,
                    num_frames, i, points, cloud_data, msg, err, clockReads,
                    generated, written, hadPrior >>

\* line 19: rosbag.Bag(bag_file, 'w') raises; the with body is not entered.
OpenFail ==
    /\ pc = "open"
    /\ err' = "Error"
    /\ log' = Append(log, Event("open", "Error"))
    /\ pc' = "raised"
    /\ UNCHANGED << initialized, hostOrder, rng, now, disk, bag_file, topic_name,
                    num_frames, i, bagOpen, points, cloud_data, msg, clockReads,
                    generated, written, hadPrior >>

\* lines 21-41: draw the points and pack them.
Generate ==
    /\ pc = "gen"
    /\ LET pts == RandPoints(rng) IN
          /\ points' = pts
          /\ cloud_data' = PackAll(hostOrder, pts)
    /\ rng' = Advance(rng, 4 * num_points)
    /\ log' = Append(log, Event("generate", "ok"))
    /\ pc' = "build"
    /\ UNCHANGED << initialized, hostOrder, now, disk, bag_file, topic_name,
                    num_frames, i, bagOpen, msg, err, clockReads, generated,
                    written, hadPrior >>

\* lines 44-54: read the clock for header.stamp and fill the message.
BuildMsg ==
    /\ pc = "build"
    /\ \E t \in ClockNext(now) :
          LET m == Message(t, cloud_data) IN
          /\ now' = t
          /\ clockReads' = Append(clockReads, Read("stamp", i, t))
          /\ msg' = m
          /\ generated' = Append(generated, m)
    /\ log' = Append(log, Event("stamp", "ok"))
    /\ pc' = "write"
    /\ UNCHANGED << initialized, hostOrder, rng, disk, bag_file, topic_name,
                    num_frames, i, bagOpen, points, cloud_data, err, written,
                    hadPrior >>

\* lines 57-59: read the clock and append the message to the bag.
Write ==
    /\ pc = "write"
    /\ \E t \in ClockNext(now) :
          LET e == Entry(topic_name, msg, AppendTime(t, i, num_frames)) IN
          /\ now' = t
          /\ clockReads' = Append(clockReads, Read("write", i, t))
          /\ disk' = [disk EXCEPT ![bag_file] = Append(@, e)]
          /\ written' = Append(written, e)
    /\ log' = Append(log, Event("write", "ok"))
    /\ pc' = "sleep"
    /\ UNCHANGED << initialized, hostOrder, rng, bag_file, topic_name,
                    num_frames, i, bagOpen, points, cloud_data, msg, err,
                    generated, hadPrior >>

\* line 62, then line 20 again.
Sleep ==
    /\ pc = "sleep"
    /\ i' = i + 1
    /\ log' = Append(log, Event("sleep", "ok"))
    /\ pc' = IF LoopContinues(i + 1, num_frames) THEN "gen" ELSE "close"
    /\ UNCHANGED << initialized, hostOrder, rng, now, disk, bag_file, topic_name,
                    num_frames, bagOpen, points, cloud_data, msg, err,
                    clockReads, generated, written, hadPrior >>

\* A statement of the with body (lines 20-62) raises: generation, the clock
\* read of line 45, the append of line 59 or the delay of line 62.
BodyFail ==
    /\ pc \in {"gen", "build", "write", "sleep"}
    /\ err' = "Error"
    /\ log' = Append(log, Event(CASE pc = "gen" -> "generate"
                                  [] pc = "build" -> "stamp"
                                  [] pc = "write" -> "write"
                                  [] pc = "sleep" -> "sleep", "Error"))
    /\ pc' = BodyErrorTarget
    /\ UNCHANGED << initialized, hostOrder, rng, now, disk, bag_file, topic_name,
                    num_frames, i, bagOpen, points, cloud_data, msg,
                    clockReads, generated, written, hadPrior >>

\* line 19, leaving the with block: Bag.__exit__ closes the bag.
CloseBag ==
    /\ pc = "close"
    /\ bagOpen' = FALSE
    /\ log' = Append(log, Event("close", "ok"))
    /\ pc' = AfterClose(err)
    /\ UNCHANGED << initialized, hostOrder, rng, now, disk, bag_file, topic_name,
                    num_frames, i, points, cloud_data, msg, err, clockReads,
                    generated, written, hadPrior >>

\* line 19, leaving the with block: the close itself raises.
CloseFail ==
    /\ pc = "close"
    /\ bagOpen' = FALSE
    /\ err' = "Error"
    /\ log' = Append(log, Event("close", "Error"))
    /\ pc' = "raised"
    /\ UNCHANGED << initialized, hostOrder, rng, now, disk, bag_file, topic_name,
                    num_frames, i, points, cloud_data, msg, clockReads,
                    generated, written, hadPrior >>

\* line 64
Finish ==
    /\ pc = "finish"
    /\ log' = Append(log, Event("finished", "ok"))
    /\ pc' = "done"
    /\ UNCHANGED << initialized, hostOrder, rng, now, disk, bag_file, topic_name,
                    num_frames, i, bagOpen, points, cloud_data, msg, err,
                    clockReads, generated, written, hadPrior >>

Next ==
    \/ Call
    \/ InitNode
    \/ InitNodeRaise
    \/ OpenBag
    \/ OpenFail
    \/ Generate
    \/ BuildMsg
    \/ Write
    \/ Sleep
    \/ BodyFail
    \/ CloseBag
    \/ CloseFail
    \/ Finish

Spec == Init /\ [][Next]_vars

\* ------------------------------------------------ derived notions -------
\* The container the current call writes to.
Bag == disk[bag_file]

\* Positions of the log holding an event of operation op with result res.
EventsAt(op, res) == {k \in 1..Len(log) : log[k] = Event(op, res)}
ClosesAt == {k \in 1..Len(log) : log[k].op = "close"}
Exited == pc \in {"done", "raised"}

\* The clock never read lower than at an earlier read of the call.
ClockMonotone ==
    \A j, k \in 1..Len(clockReads) : j < k => clockReads[j].t <= clockReads[k].t

\* Field f of record r (both 1-based) of a payload, decoded in the byte order
\* it was packed in: the four bytes at offset 16 * (r - 1) + 4 * (f - 1).
FieldOf(data, r, f) ==
    LET o == 16 * (r - 1) + 4 * (f - 1) IN
    IF hostOrder = "little"
    THEN data[o + 1] + 256 * data[o + 2] + 65536 * data[o + 3]
         + 16777216 * data[o + 4]
    ELSE data[o + 4] + 256 * data[o + 3] + 65536 * data[o + 2]
         + 16777216 * data[o + 1]

\* ------------------------------------------------------------ claims -----
\* C1: a call with num_frames > 0 that completes leaves the container with
\* exactly num_frames entries, every one on topic_name, entry k carrying the
\* frame built in iteration k.
C1_ExactlyFrameCountInOrder ==
    (pc = "done" /\ num_frames > 0) =>
        /\ Len(Bag) = num_frames
        /\ Len(generated) = num_frames
        /\ \A k \in 1..Len(Bag) :
              /\ Bag[k].topic = topic_name
              /\ Bag[k].msg = generated[k]

C1_Witness ==
    /\ pc = "done"
    /\ num_frames = 2
    /\ Len(Bag) = 2
    /\ generated[1] # generated[2]
    /\ Bag[1].msg = generated[1]

\* C2 as stated: for entries appended in iterations j < k of one call, the
\* append timestamp of entry j is at most that of entry k.
C2_AppendTimesNonDecreasing ==
    \A j, k \in 1..Len(written) : j < k => written[j].t <= written[k].t

\* C2 amended: the append timestamps are non-decreasing in append order
\* whenever the clock itself never read lower than at an earlier read.
C2_AppendTimesFollowClock ==
    ClockMonotone =>
        \A j, k \in 1..Len(written) : j < k => written[j].t <= written[k].t

C2_Witness ==
    /\ pc = "done"
    /\ ClockMonotone
    /\ Len(written) = 2
    /\ written[1].t < written[2].t
    /\ Bag = written

\* C3: a completed call on a path whose container already held entries
\* leaves exactly the entries this call appended, none of the earlier ones.
C3_RerunOverwrites ==
    (pc = "done" /\ hadPrior) =>
        /\ Bag = written
        /\ Len(Bag) = num_frames

C3_Witness ==
    /\ pc = "done"
    /\ hadPrior
    /\ num_frames = 1
    /\ Len(Bag) = 1

\* The shape of a frame: 10 points in one row of 160 bytes.
FrameShapeOK(m) ==
    /\ m.width = 10
    /\ m.height = 1
    /\ m.point_step = 16
    /\ m.row_step = m.point_step * m.width
    /\ m.row_step = 160
    /\ Len(m.data) = m.row_step

C5_InitConflictSwallowed ==
    (Len(log) >= 1 /\ log[1] = Event("init_node", "ROSException")) =>
        /\ err # "ROSException"
        /\ Len(log) = 1 => pc = "open"
        /\ Len(log) >= 2 => log[2].op = "open"
        /\ pc = "done" => (Len(Bag) = num_frames /\ Bag = written)

C5_Witness ==
    /\ pc = "done"
    /\ log[1] = Event("init_node", "ROSException")
    /\ num_frames = 2
    /\ Len(Bag) = 2

\* C6: after a failed open, write or close the same operation is not
\* attempted again, no frame is generated, stamped, appended or delayed,
\* line 64 is not reached, and the error is the call's outcome.
C6_IoFailureIsFatal ==
    \A k \in 1..Len(log) :
        (log[k].op \in {"open", "write", "close"} /\ log[k].res # "ok") =>
            /\ \A j \in (k + 1)..Len(log) :
                  /\ log[j].op # log[k].op
                  /\ log[j].op \notin {"open", "generate", "stamp", "write",
                                       "sleep", "finished"}
            /\ err # "none"
            /\ pc \in {"close", "raised"}
            /\ Len(written) = Cardinality(EventsAt("write", "ok"))

C6_Witness ==
    /\ pc = "raised"
    /\ num_frames = 2
    /\ EventsAt("write", "ok") # {}
    /\ EventsAt("write", "Error") # {}
    /\ Len(Bag) = 1

\* C7: once the bag has been opened, every exit of the function has closed
\* it exactly once, and no append follows a close.
C7_ClosedOnceOnEveryExit ==
    /\ Cardinality(ClosesAt) <= 1
    /\ (EventsAt("open", "ok") # {} /\ Exited) =>
          (Cardinality(ClosesAt) = 1 /\ ~bagOpen)
    /\ \A c \in ClosesAt : \A j \in (c + 1)..Len(log) : log[j].op # "write"
    /\ bagOpen <=> (EventsAt("open", "ok") # {} /\ ClosesAt = {})

C7_Witness ==
    /\ pc = "raised"
    /\ EventsAt("write", "ok") # {}
    /\ EventsAt("stamp", "Error") # {}
    /\ Cardinality(ClosesAt) = 1
    /\ ~bagOpen

\* C8: every packed record is the little-endian encoding of its point,
\* x, y, z, intensity at byte offsets 0, 4, 8, 12, whatever the host.
C8_RecordsLittleEndian ==
    \A r \in 1..Len(cloud_data) :
        /\ r <= Len(points)
        /\ cloud_data[r] = PackLittle(points[r])

\* The entry appended last; every entry of the container is this one in the
\* state that follows its append.
Newest == Bag[Len(Bag)]

\* C9 as stated: every field of every record of an entry is finite and in
\* [0, 1), 1.0 excluded.
C9_FieldsBelowOne ==
    Len(Bag) > 0 =>
        \A r \in 1..num_points : \A f \in 1..4 :
            LET v == FieldOf(Newest.msg.data, r, f) IN v >= 0 /\ v < OneBits

\* C9 amended: every field of every record of an entry, decoded in the byte
\* order it was packed in, is finite and in [0, 1]; 1.0 itself is attained.
C9_FieldsAtMostOne ==
    Len(Bag) > 0 =>
        \A r \in 1..num_points : \A f \in 1..4 :
            LET v == FieldOf(Newest.msg.data, r, f) IN
                v >= 0 /\ v <= OneBits /\ v < InfBits

C9_Witness ==
    /\ Len(Bag) > 0
    /\ \E r \in 1..num_points : \E f \in 1..4 :
          FieldOf(Newest.msg.data, r, f) = OneBits
    /\ \E r \in 1..num_points : \E f \in 1..4 :
          FieldOf(Newest.msg.data, r, f) = Narrow(2^26, 0)

\* C10: the clock reads of a call alternate capture, append, capture, ...
\* with iteration k making reads 2k+1 and 2k+2; entry k carries exactly
\* those two readings; so under a clock that never reads lower than before,
\* capture <= append within an entry and append of one entry <= capture of
\* the next.
C10_CaptureBeforeAppend ==
    /\ \A k \in 1..Len(clockReads) :
          /\ clockReads[k].by = (IF k % 2 = 1 THEN "stamp" ELSE "write")
          /\ clockReads[k].frame = (k - 1) \div 2
    /\ \A k \in 1..Len(written) :
          /\ 2 * k <= Len(clockReads)
          /\ written[k].msg.header.stamp = clockReads[2 * k - 1].t
          /\ written[k].t = clockReads[2 * k].t
    /\ ClockMonotone =>
          /\ \A k \in 1..Len(written) : written[k].msg.header.stamp <= written[k].t
          /\ \A k \in 1..(Len(written) - 1) :
                written[k].t <= written[k + 1].msg.header.stamp

C10_Witness ==
    /\ ClockMonotone
    /\ Len(written) = 2
    /\ written[1].msg.header.stamp < written[1].t
    /\ written[1].t <= written[2].msg.header.stamp
    /\ Bag = written

====
